---- MODULE Spec2Model ----
(***************************************************************************)
(* Poll-based futures of src/src/lib.rs: the leaves (FutureResult, Empty,  *)
(* Receiver), the conversion IntoFuture, and the combinators Map, MapErr,  *)
(* AndThen, OrElse, Select and Join.  A future is a value; poll consumes   *)
(* it and returns Ok(outcome) (ready) or Err(continuation) (pending).      *)
(***************************************************************************)
EXTENDS Integers, Sequences, FiniteSets, TLC

VARIABLES root, fut, last, chans, log

vars == <<root, fut, last, chans, log>>

(* ---------------------------- bounds ----------------------------------- *)
\* poll calls the driver makes on one top-level future
MaxPolls == 3
\* messages the producers send, all channels together
MaxSend == 2
\* item values are 1..MaxVal
MaxVal == 2

Vals == 1..MaxVal
Errs == {1, 2}
Chans == {1, 2}

(* ---------------------------- values ----------------------------------- *)
\* Result<T, E>: Ok(v) / Err(e)
Ok(v) == [tag |-> "Ok", val |-> v]
Err(e) == [tag |-> "Err", val |-> e]
\* no outcome (the poll was pending)
None == [tag |-> "None", val |-> 0]
\* the future value after it has been consumed by a ready poll
Gone == [k |-> "Gone"]
\* std::sync::mpsc::RecvError, a unit struct
RecvError == 0

\* poll's return: Ok(outcome) is Ready, Err(continuation) is Pending
Ready(o) == [ready |-> TRUE, out |-> o, fut |-> Gone]
Pending(f) == [ready |-> FALSE, out |-> None, fut |-> f]

(* ---------------------------- constructors ----------------------------- *)
FutureResult(r) == [k |-> "FutureResult", inner |-> r]
Empty == [k |-> "Empty"]
Receiver(c) == [k |-> "Receiver", ch |-> c]
Map(a, f) == [k |-> "Map", future |-> a, f |-> f]
MapErr(a, f) == [k |-> "MapErr", future |-> a, f |-> f]
AndThenFirst(a, f) == [k |-> "AndThen", st |-> "First", a |-> a, f |-> f]
AndThenSecond(b) == [k |-> "AndThen", st |-> "Second", b |-> b]
OrElseFirst(a, f) == [k |-> "OrElse", st |-> "First", a |-> a, f |-> f]
OrElseSecond(b) == [k |-> "OrElse", st |-> "Second", b |-> b]
Select(a, b) == [k |-> "Select", a |-> a, b |-> b]
JoinBoth(a, b) == [k |-> "Join", st |-> "Both", a |-> a, b |-> b]
\* _Join::First(a, b): the future a and the second side's stored result b
JoinFirst(a, b) == [k |-> "Join", st |-> "First", a |-> a, b |-> b]
\* _Join::Second(a, b): the first side's stored result a and the future b
JoinSecond(a, b) == [k |-> "Join", st |-> "Second", a |-> a, b |-> b]

\* a bare Result value, before conversion
Bare(r) == [k |-> "Result", inner |-> r]

\* IntoFuture::into_future: a future is its own conversion, a bare Result
\* becomes a FutureResult holding it
IntoFuture(x) == IF x.k = "Result" THEN FutureResult(x.inner) ELSE x

(* ---------------------------- closures --------------------------------- *)
\* closures passed to the combinators, as data
\*   inc        |v| v + 1
\*   const(e)   |_| e
\*   ok_inc     |v| Ok(v + 1)          (a bare Result)
\*   err(e)     |_| Err(e)             (a bare Result)
\*   ok         |x| Ok(x)
\*   check      |v| if v = 1 { Ok(v) } else { Err(v) }
\*   never      |_| Empty::new()
\*   recv(c)    move |_| rx_c
\*   recv_err(c,e) move |_| rx_c.map_err(|_| e)
Fn(name, c, e) == [k |-> "Fn", fn |-> name, c |-> c, e |-> e]

Apply(f, x) ==
  CASE f.fn = "inc" -> x + 1
    [] f.fn = "const" -> f.e
    [] f.fn = "ok_inc" -> Bare(Ok(x + 1))
    [] f.fn = "err" -> Bare(Err(f.e))
    [] f.fn = "ok" -> Bare(Ok(x))
    [] f.fn = "check" -> IF x = 1 THEN Bare(Ok(x)) ELSE Bare(Err(x))
    [] f.fn = "never" -> Empty
    [] f.fn = "recv" -> Receiver(f.c)
    [] f.fn = "recv_err" -> MapErr(Receiver(f.c), Fn("const", 0, f.e))

(* ---------------------------- poll ------------------------------------- *)
\* one record of what a poll call did: a sub-future at position `at` was
\* polled (ev = "poll": self the value polled, out its outcome or None, fut
\* its continuation or Gone) or a closure was invoked (ev = "call": self the
\* closure, out the argument, fut the future it produced or Gone)
Ev(ev, at, self, out, f) == [ev |-> ev, at |-> at, self |-> self, out |-> out, fut |-> f]
Arg(x) == [tag |-> "Arg", val |-> x]

\* what a poll returns in the model: the result, the channels after it, and
\* the record of the sub-polls and closure calls it made, in order
Ret(res, ch, tr) == [res |-> res, ch |-> ch, tr |-> tr]

\* a value computed once and then used under a name: the `let` of the source
Bind(v, F(_)) == CHOOSE y \in {F(x) : x \in {v}} : TRUE

RECURSIVE Poll(_, _, _)


\* Receiver::try_recv of the standard library, as Receiver::poll uses it: a
\* buffered message is taken first; an empty queue is Empty while a sender
\* lives and Disconnected once the sender is gone
TryRecv(c) ==
  IF c.q # <<>> THEN [tag |-> "Ok", val |-> Head(c.q)]
  ELSE IF c.open THEN [tag |-> "Empty", val |-> 0]
  ELSE [tag |-> "Disconnected", val |-> 0]

\* FutureResult::poll discarding the error: Ok(self.inner.ok().ok_or(()))
PollFutureResult_Discard(self, ch, at) ==
  Ret(Ready(IF self.inner.tag = "Err" THEN Err(0) ELSE self.inner), ch, <<>>)

\* impl Future for FutureResult: Ok(self.inner)
PollFutureResult(self, ch, at) == Ret(Ready(self.inner), ch, <<>>)

\* Empty::poll completing instead of returning itself
PollEmpty_Ready(self, ch, at) == Ret(Ready(Ok(0)), ch, <<>>)

\* Empty::poll resolving with a Failure instead of returning itself
PollEmpty_Fails(self, ch, at) == Ret(Ready(Err(0)), ch, <<>>)

\* impl Future for Empty: Err(self)
PollEmpty(self, ch, at) == Ret(Pending(self), ch, <<>>)

\* Receiver::poll reporting a dropped sender before looking at the buffer
PollReceiver_DisconnectFirst(self, ch, at) ==
  LET r == TryRecv(ch[self.ch]) IN
  IF ~ch[self.ch].open THEN Ret(Ready(Err(RecvError)), ch, <<>>)
  ELSE IF r.tag = "Ok"
  THEN Ret(Ready(Ok(r.val)), [ch EXCEPT ![self.ch].q = Tail(@)], <<>>)
  ELSE Ret(Pending(self), ch, <<>>)

\* impl Future for Receiver
PollReceiver(self, ch, at) ==
  LET r == TryRecv(ch[self.ch]) IN
  CASE r.tag = "Ok" ->
         Ret(Ready(Ok(r.val)), [ch EXCEPT ![self.ch].q = Tail(@)], <<>>)
    [] r.tag = "Empty" -> Ret(Pending(self), ch, <<>>)
    [] r.tag = "Disconnected" -> Ret(Ready(Err(RecvError)), ch, <<>>)

\* Map::poll applying f to the error as well as to the item
PollMap_AlsoErr(self, ch, at) ==
  Bind(Poll(self.future, ch, at \o <<"future">>), LAMBDA r :
  IF r.res.ready
  THEN Ret(Ready([tag |-> r.res.out.tag, val |-> Apply(self.f, r.res.out.val)]), r.ch,
           Append(r.tr, Ev("call", at, self.f, Arg(r.res.out.val), Gone)))
  ELSE Ret(Pending(Map(r.res.fut, self.f)), r.ch, r.tr))

\* impl Future for Map: Ok(result) => Ok(result.map(self.f))
PollMap(self, ch, at) ==
  Bind(Poll(self.future, ch, at \o <<"future">>), LAMBDA r :
  IF r.res.ready
  THEN IF r.res.out.tag = "Ok"
       THEN Ret(Ready(Ok(Apply(self.f, r.res.out.val))), r.ch,
                Append(r.tr, Ev("call", at, self.f, Arg(r.res.out.val), Gone)))
       ELSE Ret(Ready(r.res.out), r.ch, r.tr)
  ELSE Ret(Pending(Map(r.res.fut, self.f)), r.ch, r.tr))

\* MapErr::poll written with result.map(self.f): f applied to the item
PollMapErr_MapsOk(self, ch, at) ==
  Bind(Poll(self.future, ch, at \o <<"future">>), LAMBDA r :
  IF r.res.ready
  THEN IF r.res.out.tag = "Ok"
       THEN Ret(Ready(Ok(Apply(self.f, r.res.out.val))), r.ch,
                Append(r.tr, Ev("call", at, self.f, Arg(r.res.out.val), Gone)))
       ELSE Ret(Ready(r.res.out), r.ch, r.tr)
  ELSE Ret(Pending(MapErr(r.res.fut, self.f)), r.ch, r.tr))

\* impl Future for MapErr: Ok(result) => Ok(result.map_err(self.f))
PollMapErr(self, ch, at) ==
  Bind(Poll(self.future, ch, at \o <<"future">>), LAMBDA r :
  IF r.res.ready
  THEN IF r.res.out.tag = "Err"
       THEN Ret(Ready(Err(Apply(self.f, r.res.out.val))), r.ch,
                Append(r.tr, Ev("call", at, self.f, Arg(r.res.out.val), Gone)))
       ELSE Ret(Ready(r.res.out), r.ch, r.tr)
  ELSE Ret(Pending(MapErr(r.res.fut, self.f)), r.ch, r.tr))

\* the tail of AndThen::poll: second.poll().map_err(|b| AndThen{Second(b)})
AndThenDrive(second, ch, at, tr) ==
  Bind(Poll(second, ch, at \o <<"b">>), LAMBDA rb :
  Ret(IF rb.res.ready THEN rb.res ELSE Pending(AndThenSecond(rb.res.fut)),
      rb.ch, tr \o rb.tr))

\* AndThen::poll invoking the continuation on a Failure as well
PollAndThen_CallsOnErr(self, ch, at) ==
  IF self.st = "First"
  THEN Bind(Poll(self.a, ch, at \o <<"a">>), LAMBDA ra :
       IF ra.res.ready
       THEN LET second == IntoFuture(Apply(self.f, ra.res.out.val)) IN
            IF ra.res.out.tag = "Ok"
            THEN AndThenDrive(second, ra.ch, at,
                   Append(ra.tr, Ev("call", at, self.f, Arg(ra.res.out.val), second)))
            ELSE Ret(Ready(ra.res.out), ra.ch,
                   Append(ra.tr, Ev("call", at, self.f, Arg(ra.res.out.val), second)))
       ELSE Ret(Pending(AndThenFirst(ra.res.fut, self.f)), ra.ch, ra.tr))
  ELSE AndThenDrive(self.b, ch, at, <<>>)

\* AndThen::poll entering the second phase without polling the second future
PollAndThen_NoPoll(self, ch, at) ==
  IF self.st = "First"
  THEN Bind(Poll(self.a, ch, at \o <<"a">>), LAMBDA ra :
       IF ra.res.ready
       THEN IF ra.res.out.tag = "Ok"
            THEN LET second == IntoFuture(Apply(self.f, ra.res.out.val)) IN
                 Ret(Pending(AndThenSecond(second)), ra.ch,
                   Append(ra.tr, Ev("call", at, self.f, Arg(ra.res.out.val), second)))
            ELSE Ret(Ready(ra.res.out), ra.ch, ra.tr)
       ELSE Ret(Pending(AndThenFirst(ra.res.fut, self.f)), ra.ch, ra.tr))
  ELSE AndThenDrive(self.b, ch, at, <<>>)

\* impl Future for AndThen
PollAndThen(self, ch, at) ==
  IF self.st = "First"
  THEN Bind(Poll(self.a, ch, at \o <<"a">>), LAMBDA ra :
       IF ra.res.ready
       THEN IF ra.res.out.tag = "Ok"
            THEN LET second == IntoFuture(Apply(self.f, ra.res.out.val)) IN
                 AndThenDrive(second, ra.ch, at,
                   Append(ra.tr, Ev("call", at, self.f, Arg(ra.res.out.val), second)))
            ELSE Ret(Ready(ra.res.out), ra.ch, ra.tr)
       ELSE Ret(Pending(AndThenFirst(ra.res.fut, self.f)), ra.ch, ra.tr))
  ELSE AndThenDrive(self.b, ch, at, <<>>)

\* the tail of OrElse::poll: second.poll().map_err(|b| OrElse{Second(b)})
OrElseDrive(second, ch, at, tr) ==
  Bind(Poll(second, ch, at \o <<"b">>), LAMBDA rb :
  Ret(IF rb.res.ready THEN rb.res ELSE Pending(OrElseSecond(rb.res.fut)),
      rb.ch, tr \o rb.tr))

\* OrElse::poll returning the Failure instead of invoking the continuation
PollOrElse_NoRecover(self, ch, at) ==
  IF self.st = "First"
  THEN Bind(Poll(self.a, ch, at \o <<"a">>), LAMBDA ra :
       IF ra.res.ready
       THEN Ret(Ready(ra.res.out), ra.ch, ra.tr)
       ELSE Ret(Pending(OrElseFirst(ra.res.fut, self.f)), ra.ch, ra.tr))
  ELSE OrElseDrive(self.b, ch, at, <<>>)

\* OrElse::poll entering the second phase without polling the second future
PollOrElse_NoPoll(self, ch, at) ==
  IF self.st = "First"
  THEN Bind(Poll(self.a, ch, at \o <<"a">>), LAMBDA ra :
       IF ra.res.ready
       THEN IF ra.res.out.tag = "Ok"
            THEN Ret(Ready(ra.res.out), ra.ch, ra.tr)
            ELSE LET second == IntoFuture(Apply(self.f, ra.res.out.val)) IN
                 Ret(Pending(OrElseSecond(second)), ra.ch,
                   Append(ra.tr, Ev("call", at, self.f, Arg(ra.res.out.val), second)))
       ELSE Ret(Pending(OrElseFirst(ra.res.fut, self.f)), ra.ch, ra.tr))
  ELSE OrElseDrive(self.b, ch, at, <<>>)

\* impl Future for OrElse
PollOrElse(self, ch, at) ==
  IF self.st = "First"
  THEN Bind(Poll(self.a, ch, at \o <<"a">>), LAMBDA ra :
       IF ra.res.ready
       THEN IF ra.res.out.tag = "Ok"
            THEN Ret(Ready(ra.res.out), ra.ch, ra.tr)
            ELSE LET second == IntoFuture(Apply(self.f, ra.res.out.val)) IN
                 OrElseDrive(second, ra.ch, at,
                   Append(ra.tr, Ev("call", at, self.f, Arg(ra.res.out.val), second)))
       ELSE Ret(Pending(OrElseFirst(ra.res.fut, self.f)), ra.ch, ra.tr))
  ELSE OrElseDrive(self.b, ch, at, <<>>)

\* Select::poll with the two sides polled in the other order
PollSelect_BFirst(self, ch, at) ==
  Bind(Poll(self.b, ch, at \o <<"b">>), LAMBDA rb :
  IF rb.res.ready
  THEN Ret(rb.res, rb.ch, rb.tr)
  ELSE Bind(Poll(self.a, rb.ch, at \o <<"a">>), LAMBDA ra :
       Ret(IF ra.res.ready THEN ra.res
           ELSE Pending(Select(ra.res.fut, rb.res.fut)),
           ra.ch, rb.tr \o ra.tr)))

\* Select::poll keeping the first side as it was before the poll
PollSelect_KeepsOld(self, ch, at) ==
  Bind(Poll(self.a, ch, at \o <<"a">>), LAMBDA ra :
  IF ra.res.ready
  THEN Ret(ra.res, ra.ch, ra.tr)
  ELSE Bind(Poll(self.b, ra.ch, at \o <<"b">>), LAMBDA rb :
       Ret(IF rb.res.ready THEN rb.res
           ELSE Pending(Select(self.a, rb.res.fut)),
           rb.ch, ra.tr \o rb.tr)))

\* Select::poll without the second side: a.poll().map_err(|a| Select { a, b })
PollSelect_OnlyA(self, ch, at) ==
  Bind(Poll(self.a, ch, at \o <<"a">>), LAMBDA ra :
  IF ra.res.ready
  THEN Ret(ra.res, ra.ch, ra.tr)
  ELSE Ret(Pending(Select(ra.res.fut, self.b)), ra.ch, ra.tr))

\* impl Future for Select:
\*   a.poll().or_else(|a| b.poll().map_err(|b| Select { a, b }))
PollSelect(self, ch, at) ==
  Bind(Poll(self.a, ch, at \o <<"a">>), LAMBDA ra :
  IF ra.res.ready
  THEN Ret(ra.res, ra.ch, ra.tr)
  ELSE Bind(Poll(self.b, ra.ch, at \o <<"b">>), LAMBDA rb :
       Ret(IF rb.res.ready THEN rb.res
           ELSE Pending(Select(ra.res.fut, rb.res.fut)),
           rb.ch, ra.tr \o rb.tr)))

\* Join::poll keeping a resolved side as a future, to be polled again
PollJoin_Repoll(self, ch, at) ==
  Bind(IF self.st \in {"Both", "First"}
       THEN Poll(self.a, ch, at \o <<"a">>)
       ELSE Ret(Ready(self.a), ch, <<>>), LAMBDA ra :
  Bind(IF self.st \in {"Both", "Second"}
       THEN Poll(self.b, ra.ch, at \o <<"b">>)
       ELSE Ret(Ready(self.b), ra.ch, <<>>), LAMBDA rb :
  LET a == ra.res
      b == rb.res
      res == IF a.ready /\ a.out.tag = "Err" THEN Ready(Err(a.out.val))
             ELSE IF b.ready /\ b.out.tag = "Err" THEN Ready(Err(b.out.val))
             ELSE IF a.ready /\ b.ready THEN Ready(Ok(<<a.out.val, b.out.val>>))
             ELSE IF ~a.ready /\ b.ready THEN Pending(JoinBoth(a.fut, FutureResult(b.out)))
             ELSE IF a.ready /\ ~b.ready THEN Pending(JoinBoth(FutureResult(a.out), b.fut))
             ELSE Pending(JoinBoth(a.fut, b.fut))
  IN Ret(res, rb.ch, ra.tr \o rb.tr)))

\* Join::poll pairing the two items in the wrong order
PollJoin_Swapped(self, ch, at) ==
  Bind(IF self.st \in {"Both", "First"}
       THEN Poll(self.a, ch, at \o <<"a">>)
       ELSE Ret(Ready(self.a), ch, <<>>), LAMBDA ra :
  Bind(IF self.st \in {"Both", "Second"}
       THEN Poll(self.b, ra.ch, at \o <<"b">>)
       ELSE Ret(Ready(self.b), ra.ch, <<>>), LAMBDA rb :
  LET a == ra.res
      b == rb.res
      res == IF a.ready /\ a.out.tag = "Err" THEN Ready(Err(a.out.val))
             ELSE IF b.ready /\ b.out.tag = "Err" THEN Ready(Err(b.out.val))
             ELSE IF a.ready /\ b.ready THEN Ready(Ok(<<b.out.val, a.out.val>>))
             ELSE IF ~a.ready /\ b.ready THEN Pending(JoinFirst(a.fut, b.out))
             ELSE IF a.ready /\ ~b.ready THEN Pending(JoinSecond(a.out, b.fut))
             ELSE Pending(JoinBoth(a.fut, b.fut))
  IN Ret(res, rb.ch, ra.tr \o rb.tr)))

\* Join::poll turning the stored result back into a future when the other
\* side is still pending: phase First falls back to Both
PollJoin_Regress(self, ch, at) ==
  Bind(IF self.st \in {"Both", "First"}
       THEN Poll(self.a, ch, at \o <<"a">>)
       ELSE Ret(Ready(self.a), ch, <<>>), LAMBDA ra :
  Bind(IF self.st \in {"Both", "Second"}
       THEN Poll(self.b, ra.ch, at \o <<"b">>)
       ELSE Ret(Ready(self.b), ra.ch, <<>>), LAMBDA rb :
  LET a == ra.res
      b == rb.res
      res == IF a.ready /\ a.out.tag = "Err" THEN Ready(Err(a.out.val))
             ELSE IF b.ready /\ b.out.tag = "Err" THEN Ready(Err(b.out.val))
             ELSE IF a.ready /\ b.ready THEN Ready(Ok(<<a.out.val, b.out.val>>))
             ELSE IF ~a.ready /\ b.ready
             THEN (IF self.st = "First"
                   THEN Pending(JoinBoth(a.fut, FutureResult(b.out)))
                   ELSE Pending(JoinFirst(a.fut, b.out)))
             ELSE IF a.ready /\ ~b.ready THEN Pending(JoinSecond(a.out, b.fut))
             ELSE Pending(JoinBoth(a.fut, b.fut))
  IN Ret(res, rb.ch, ra.tr \o rb.tr)))

\* Join::poll with the error arm tried last: a Failure of one side is stored
\* while the other side is pending
PollJoin_StoresErr(self, ch, at) ==
  Bind(IF self.st \in {"Both", "First"}
       THEN Poll(self.a, ch, at \o <<"a">>)
       ELSE Ret(Ready(self.a), ch, <<>>), LAMBDA ra :
  Bind(IF self.st \in {"Both", "Second"}
       THEN Poll(self.b, ra.ch, at \o <<"b">>)
       ELSE Ret(Ready(self.b), ra.ch, <<>>), LAMBDA rb :
  LET a == ra.res
      b == rb.res
      res == IF a.ready /\ b.ready /\ a.out.tag = "Ok" /\ b.out.tag = "Ok"
             THEN Ready(Ok(<<a.out.val, b.out.val>>))
             ELSE IF ~a.ready /\ b.ready THEN Pending(JoinFirst(a.fut, b.out))
             ELSE IF a.ready /\ ~b.ready THEN Pending(JoinSecond(a.out, b.fut))
             ELSE IF ~a.ready /\ ~b.ready THEN Pending(JoinBoth(a.fut, b.fut))
             ELSE IF a.out.tag = "Err" THEN Ready(Err(a.out.val))
             ELSE Ready(Err(b.out.val))
  IN Ret(res, rb.ch, ra.tr \o rb.tr)))

\* Join::poll with the alternatives of the error arm in the other order:
\* (_, Ok(Err(e))) | (Ok(Err(e)), _)
PollJoin_PrefersSecond(self, ch, at) ==
  Bind(IF self.st \in {"Both", "First"}
       THEN Poll(self.a, ch, at \o <<"a">>)
       ELSE Ret(Ready(self.a), ch, <<>>), LAMBDA ra :
  Bind(IF self.st \in {"Both", "Second"}
       THEN Poll(self.b, ra.ch, at \o <<"b">>)
       ELSE Ret(Ready(self.b), ra.ch, <<>>), LAMBDA rb :
  LET a == ra.res
      b == rb.res
      res == IF b.ready /\ b.out.tag = "Err" THEN Ready(Err(b.out.val))
             ELSE IF a.ready /\ a.out.tag = "Err" THEN Ready(Err(a.out.val))
             ELSE IF a.ready /\ b.ready THEN Ready(Ok(<<a.out.val, b.out.val>>))
             ELSE IF ~a.ready /\ b.ready THEN Pending(JoinFirst(a.fut, b.out))
             ELSE IF a.ready /\ ~b.ready THEN Pending(JoinSecond(a.out, b.fut))
             ELSE Pending(JoinBoth(a.fut, b.fut))
  IN Ret(res, rb.ch, ra.tr \o rb.tr)))

\* impl Future for Join: the first match polls the unresolved side(s), left
\* to right; the second match decides on the pair of results
PollJoin(self, ch, at) ==
  Bind(IF self.st \in {"Both", "First"}
       THEN Poll(self.a, ch, at \o <<"a">>)
       ELSE Ret(Ready(self.a), ch, <<>>), LAMBDA ra :
  Bind(IF self.st \in {"Both", "Second"}
       THEN Poll(self.b, ra.ch, at \o <<"b">>)
       ELSE Ret(Ready(self.b), ra.ch, <<>>), LAMBDA rb :
  LET a == ra.res
      b == rb.res
      res == IF a.ready /\ a.out.tag = "Err" THEN Ready(Err(a.out.val))
             ELSE IF b.ready /\ b.out.tag = "Err" THEN Ready(Err(b.out.val))
             ELSE IF a.ready /\ b.ready THEN Ready(Ok(<<a.out.val, b.out.val>>))
             ELSE IF ~a.ready /\ b.ready THEN Pending(JoinFirst(a.fut, b.out))
             ELSE IF a.ready /\ ~b.ready THEN Pending(JoinSecond(a.out, b.fut))
             ELSE Pending(JoinBoth(a.fut, b.fut))
  IN Ret(res, rb.ch, ra.tr \o rb.tr)))

\* Future::poll, dispatched on the type of self; the call is recorded once
\* it has returned
Poll(self, ch, at) ==
  Bind(CASE self.k = "FutureResult" -> PollFutureResult(self, ch, at)
         [] self.k = "Empty" -> PollEmpty(self, ch, at)
         [] self.k = "Receiver" -> PollReceiver(self, ch, at)
         [] self.k = "Map" -> PollMap(self, ch, at)
         [] self.k = "MapErr" -> PollMapErr(self, ch, at)
         [] self.k = "AndThen" -> PollAndThen(self, ch, at)
         [] self.k = "OrElse" -> PollOrElse(self, ch, at)
         [] self.k = "Select" -> PollSelect(self, ch, at)
         [] self.k = "Join" -> PollJoin(self, ch, at), LAMBDA r :
  Ret(r.res, r.ch, Append(r.tr, Ev("poll", at, self, r.res.out, r.res.fut))))

(* ---------------------------- the futures driven ----------------------- *)
\* a source on channel c failing with e: rx_c.map_err(|_| e)
Src(c, e) == MapErr(Receiver(c), Fn("const", 0, e))

\* the bare outcomes
Outcomes == {Ok(v) : v \in Vals} \cup {Err(e) : e \in Errs}

\* first-position and second-position sub-futures
SideA == {IntoFuture(Bare(Ok(1))), IntoFuture(Bare(Err(1))), Empty, Src(1, 1)}
SideB == {IntoFuture(Bare(Ok(2))), IntoFuture(Bare(Err(2))), Empty, Src(2, 2)}

\* continuations for and_then (argument: an item)
ThenFns == {Fn("ok_inc", 0, 0), Fn("check", 0, 0), Fn("never", 0, 0), Fn("recv_err", 2, 2)}
\* continuations for or_else (argument: an error)
ElseFns == {Fn("ok", 0, 0), Fn("err", 0, 2), Fn("never", 0, 0), Fn("recv_err", 2, 2)}

\* sub-futures whose continuation differs from the value polled
Stateful == {AndThenFirst(Src(1, 1), Fn("never", 0, 0))}
\* a join as the first side of a join
Nested == {JoinBoth(Src(1, 1), IntoFuture(Bare(Ok(1))))}

Roots ==
  {IntoFuture(Bare(r)) : r \in Outcomes}
    \cup {Empty, Receiver(1)}
    \cup {Map(a, Fn("inc", 0, 0)) : a \in SideA}
    \cup {MapErr(a, Fn("const", 0, 2)) : a \in {IntoFuture(Bare(Err(1))), Receiver(1)}}
    \cup {MapErr(a, Fn("inc", 0, 0)) : a \in SideA}
    \cup {AndThenFirst(a, f) : a \in SideA, f \in ThenFns}
    \cup {OrElseFirst(a, f) : a \in SideA, f \in ElseFns}
    \cup {Select(a, IntoFuture(b)) : a \in SideA \cup Stateful, b \in SideB}
    \cup {JoinBoth(a, IntoFuture(b)) : a \in SideA \cup Stateful \cup Nested, b \in SideB}

\* the channels whose receiver a future (or a closure it holds) owns
RECURSIVE ChansOf(_)
ChansOf(x) ==
  CASE x.k = "Receiver" -> {x.ch}
    [] x.k \in {"Map", "MapErr"} -> ChansOf(x.future)
    [] x.k \in {"AndThen", "OrElse"} ->
         IF x.st = "First"
         THEN ChansOf(x.a) \cup (IF x.f.fn \in {"recv", "recv_err"} THEN {x.f.c} ELSE {})
         ELSE ChansOf(x.b)
    [] x.k = "Select" -> ChansOf(x.a) \cup ChansOf(x.b)
    [] x.k = "Join" ->
         (IF x.st = "Second" THEN {} ELSE ChansOf(x.a))
           \cup (IF x.st = "First" THEN {} ELSE ChansOf(x.b))
    [] OTHER -> {}

(* ---------------------------- the state machine ------------------------ *)
Init ==
  /\ root \in Roots
  /\ fut = root
  /\ last = Pending(root)
  /\ chans = [c \in Chans |-> [q |-> <<>>, open |-> TRUE, sent |-> 0]]
  /\ log = <<>>

\* the driver polls the current continuation once
PollStep ==
  /\ fut # Gone
  /\ Len(log) < MaxPolls
  /\ LET r == Poll(fut, chans, <<>>) IN
       /\ last' = r.res
       /\ fut' = r.res.fut
       /\ chans' = r.ch
       /\ log' = Append(log, r.tr)
  /\ UNCHANGED root

\* the producer of channel c sends v
Send(c, v) ==
  /\ fut # Gone
  /\ c \in ChansOf(root)
  /\ chans[c].open
  /\ chans[1].sent + chans[2].sent < MaxSend
  /\ chans' = [chans EXCEPT ![c].q = Append(@, v), ![c].sent = @ + 1]
  /\ UNCHANGED <<root, fut, last, log>>

\* the producer of channel c is dropped
Disconnect(c) ==
  /\ fut # Gone
  /\ c \in ChansOf(root)
  /\ chans[c].open
  /\ chans' = [chans EXCEPT ![c].open = FALSE]
  /\ UNCHANGED <<root, fut, last, log>>

Next ==
  \/ PollStep
  \/ \E c \in Chans, v \in Vals : Send(c, v)
  \/ \E c \in Chans : Disconnect(c)

Spec == Init /\ [][Next]_vars

(* ---------------------------- polling until done --------------------- *)
\* the driver polls the current continuation for as long as there is one
\* (no bound on the number of calls); only the last call's record is kept
PollLive ==
  /\ fut # Gone
  /\ LET r == Poll(fut, chans, <<>>) IN
       /\ last' = r.res
       /\ fut' = r.res.fut
       /\ chans' = r.ch
       /\ log' = <<r.tr>>
  /\ UNCHANGED root

NextLive ==
  \/ PollLive
  \/ \E c \in Chans, v \in Vals : Send(c, v)
  \/ \E c \in Chans : Disconnect(c)

\* the driver keeps polling: a poll that would change the state is
\* eventually made
LiveSpec == Init /\ [][NextLive]_vars /\ WF_vars(PollLive)

(* ---------------------------- reading the record ------------------------ *)
Calls == 1..Len(log)
Other(s) == IF s = "a" THEN "b" ELSE "a"
IsPrefix(p, q) == Len(p) <= Len(q) /\ SubSeq(q, 1, Len(p)) = p
\* the poll events of call i
PollIdx(i) == {j \in 1..Len(log[i]) : log[i][j].ev = "poll"}
\* ... of a future of type kind
KindIdx(i, kind) == {j \in PollIdx(i) : log[i][j].self.k = kind}
\* ... of the sub-future at position p (at most one per call)
AtIdx(i, p) == {j \in PollIdx(i) : log[i][j].at = p}
Polled(i, p) == AtIdx(i, p) # {}
PollEv(i, p) == log[i][CHOOSE j \in AtIdx(i, p) : TRUE]
\* the polls of call i at or below position p, made after event number from
Under(i, p, from) == {j \in PollIdx(i) : j > from /\ IsPrefix(p, log[i][j].at)}
\* the closure invocations of call i made by the combinator at position p
CallIdx(i, p) == {j \in 1..Len(log[i]) : log[i][j].ev = "call" /\ log[i][j].at = p}

(* ---------------------------- C1 ---------------------------------------- *)
\* C1 (as claimed): whenever a poll of one side of a join yields Failure(e),
\* the same join poll returns Ready(Failure(e)), and the other side is not
\* polled after that sub-poll, neither later in the same call nor in a later call.
C1_JoinFailureStopsPolling ==
  \A i \in Calls : \A j \in KindIdx(i, "Join") : \A s \in {"a", "b"} :
    LET E == log[i][j]
        p == E.at \o <<s>>
        o == E.at \o <<Other(s)>>
    IN (Polled(i, p) /\ PollEv(i, p).out.tag = "Err") =>
         /\ E.out.tag = "Err" /\ E.out.val = PollEv(i, p).out.val
         /\ Under(i, o, CHOOSE n \in AtIdx(i, p) : TRUE) = {}
         /\ \A i2 \in Calls : i2 > i => Under(i2, o, 0) = {}

(* ---------------------------- C2 ---------------------------------------- *)
\* C2 (as claimed): for map, and_then, select and join, every Failure(e) that
\* a directly polled sub-future yields is what the composite's poll returns,
\* Ready(Failure(e)) with the same e.
C2_NoFailureDropped ==
  \A i \in Calls : \A j \in PollIdx(i) : \A n \in PollIdx(i) :
    LET E == log[i][j]
        S == log[i][n]
    IN (/\ E.self.k \in {"Map", "AndThen", "Select", "Join"}
        /\ Len(S.at) = Len(E.at) + 1 /\ IsPrefix(E.at, S.at)
        /\ S.out.tag = "Err")
       => (E.out.tag = "Err" /\ E.out.val = S.out.val)

(* ---------------------------- C3 ---------------------------------------- *)
\* C3: the future built by into_future from a bare outcome r returns Ready(r)
\* on its first poll, never Pending, a Failure's error value unchanged.
C3_ResolvedReturnsOutcome ==
  /\ \A r \in Outcomes :
       (root = IntoFuture(Bare(r)) /\ log # <<>>) =>
          last.ready /\ last.out = r /\ fut = Gone /\ Len(log) = 1
  /\ \A i \in Calls : \A j \in KindIdx(i, "FutureResult") :
       log[i][j].out = log[i][j].self.inner /\ log[i][j].fut = Gone

C3_Witness ==
  /\ root = IntoFuture(Bare(Err(2)))
  /\ log # <<>>
  /\ last = Ready(Err(2))

(* ---------------------------- C4 ---------------------------------------- *)
\* C4: on every poll of select(A, B), A is polled before B; if A is Ready the
\* select returns A's outcome and B is polled neither in that call nor later.
C4_SelectFirstWins ==
  \A i \in Calls : \A j \in KindIdx(i, "Select") :
    LET E == log[i][j]
        pa == E.at \o <<"a">>
        pb == E.at \o <<"b">>
    IN /\ Polled(i, pa)
       /\ PollEv(i, pa).self = E.self.a
       /\ \A n \in Under(i, pb, 0) : \A m \in AtIdx(i, pa) : m < n
       /\ PollEv(i, pa).out.tag # "None" =>
            /\ E.out = PollEv(i, pa).out
            /\ E.fut = Gone
            /\ Under(i, pb, 0) = {}
            /\ \A i2 \in Calls : i2 > i => Under(i2, pb, 0) = {}

\* both sides would be ready in the same call; the first one's outcome is returned
C4_Witness ==
  /\ root = Select(FutureResult(Ok(1)), FutureResult(Ok(2)))
  /\ Len(log) = 1
  /\ last = Ready(Ok(1))
  /\ ~Polled(1, <<"b">>)

(* ---------------------------- C5 ---------------------------------------- *)
\* C5: on a poll of select(A, B) where A is Pending, B is polled exactly once;
\* a Ready B gives the select's outcome; if B is Pending too the select is
\* Pending with the continuations that A's and B's polls returned.
C5_SelectSecondSide ==
  \A i \in Calls : \A j \in KindIdx(i, "Select") :
    LET E == log[i][j]
        pa == E.at \o <<"a">>
        pb == E.at \o <<"b">>
    IN (Polled(i, pa) /\ PollEv(i, pa).out.tag = "None") =>
         /\ Cardinality(AtIdx(i, pb)) = 1
         /\ PollEv(i, pb).self = E.self.b
         /\ IF PollEv(i, pb).out.tag # "None"
            THEN E.out = PollEv(i, pb).out /\ E.fut = Gone
            ELSE /\ E.out = None
                 /\ E.fut = Select(PollEv(i, pa).fut, PollEv(i, pb).fut)

\* both sides pending, and the first side's continuation is not the value polled
C5_Witness ==
  \E i \in Calls : \E j \in KindIdx(i, "Select") :
    /\ log[i][j].at = <<>>
    /\ Polled(i, <<"a">>) /\ Polled(i, <<"b">>)
    /\ PollEv(i, <<"a">>).out.tag = "None"
    /\ PollEv(i, <<"a">>).fut # PollEv(i, <<"a">>).self
    /\ PollEv(i, <<"b">>).out.tag = "None"
    /\ log[i][j].fut = Select(PollEv(i, <<"a">>).fut, PollEv(i, <<"b">>).fut)
    /\ fut = log[i][j].fut

(* ---------------------------- C6 ---------------------------------------- *)
\* C6: when one side of a join resolves with Success while the other is
\* Pending, the join returns Pending and stores that Success; later polls of
\* the join poll the unresolved side only: a side is not polled in any call
\* after the one in which it resolved.
C6_JoinPollsUnresolvedOnly ==
  \A i \in Calls : \A j \in KindIdx(i, "Join") :
    LET E == log[i][j]
        pa == E.at \o <<"a">>
        pb == E.at \o <<"b">>
    IN /\ E.self.st = "Both" =>
            /\ Cardinality(AtIdx(i, pa)) = 1 /\ Cardinality(AtIdx(i, pb)) = 1
            /\ (PollEv(i, pa).out.tag = "Ok" /\ PollEv(i, pb).out.tag = "None") =>
                 E.out = None /\ E.fut = JoinSecond(PollEv(i, pa).out, PollEv(i, pb).fut)
            /\ (PollEv(i, pa).out.tag = "None" /\ PollEv(i, pb).out.tag = "Ok") =>
                 E.out = None /\ E.fut = JoinFirst(PollEv(i, pa).fut, PollEv(i, pb).out)
       /\ E.self.st = "Second" =>
            /\ Under(i, pa, 0) = {}
            /\ Cardinality(AtIdx(i, pb)) = 1 /\ PollEv(i, pb).self = E.self.b
       /\ E.self.st = "First" =>
            /\ Under(i, pb, 0) = {}
            /\ Cardinality(AtIdx(i, pa)) = 1 /\ PollEv(i, pa).self = E.self.a
       /\ \A s \in {"a", "b"} :
            (Polled(i, E.at \o <<s>>) /\ PollEv(i, E.at \o <<s>>).out.tag # "None") =>
               \A i2 \in Calls : i2 > i => Under(i2, E.at \o <<s>>, 0) = {}

\* the first side resolved with Success in call 1, the second was polled
\* alone in call 2
C6_Witness ==
  /\ Len(log) >= 2
  /\ root.k = "Join"
  /\ PollEv(1, <<"a">>).out.tag = "Ok" /\ PollEv(1, <<"b">>).out.tag = "None"
  /\ PollEv(2, <<>>).self = JoinSecond(PollEv(1, <<"a">>).out, PollEv(1, <<"b">>).fut)
  /\ Polled(2, <<"b">>) /\ ~Polled(2, <<"a">>)

(* ---------------------------- C7 ---------------------------------------- *)
\* the outcome with which the sub-future at position p resolved in a call up
\* to call i (None if it has not resolved)
ResolvedOut(i, p) ==
  LET done == {n \in 1..i : Polled(n, p) /\ PollEv(n, p).out.tag # "None"} IN
  IF done = {} THEN None ELSE PollEv(CHOOSE n \in done : TRUE, p).out

C8_AndThenFailure ==
  \A i \in Calls : \A j \in KindIdx(i, "AndThen") :
    LET E == log[i][j]
        pa == E.at \o <<"a">>
    IN (E.self.st = "First" /\ Polled(i, pa) /\ PollEv(i, pa).out.tag = "Err") =>
         /\ E.out = PollEv(i, pa).out
         /\ E.fut = Gone
         /\ Under(i, E.at \o <<"b">>, 0) = {}
         /\ \A i2 \in Calls : CallIdx(i2, E.at) = {}

\* the first future failed after having been pending
C8_Witness ==
  /\ root = AndThenFirst(Src(1, 1), Fn("ok_inc", 0, 0))
  /\ Len(log) >= 2
  /\ PollEv(Len(log), <<"a">>).out = Err(1)
  /\ last = Ready(Err(1))

(* ---------------------------- C9 ---------------------------------------- *)
\* call i of the sequential combinator polled as event E invoked its closure
\* exactly once, on x, then polled the future the closure produced exactly
\* once, and returned that poll's outcome, or Pending holding phase(its
\* continuation)
ChainedOnce(i, E, x, second, res) ==
  LET pa == E.at \o <<"a">>
      pb == E.at \o <<"b">>
  IN /\ Cardinality(CallIdx(i, E.at)) = 1
     /\ Cardinality(AtIdx(i, pb)) = 1
     /\ Under(i, pb, 0) = Under(i, pb, CHOOSE c \in CallIdx(i, E.at) : TRUE)
     /\ \A c \in CallIdx(i, E.at) :
          /\ \A m \in AtIdx(i, pa) : m < c
          /\ log[i][c].self = E.self.f
          /\ log[i][c].out = Arg(x)
          /\ log[i][c].fut = second
     /\ PollEv(i, pb).self = second
     /\ E.out = PollEv(i, pb).out
     /\ E.fut = res

\* C9: when the first future of an and_then yields Ready(Success(v)), the same
\* poll invokes f(v), converts the result, polls that second future exactly
\* once and returns its Ready outcome, or Pending in Phase B holding the
\* second future's continuation; when the first future yields Pending the
\* poll returns Pending in Phase A holding the first future's continuation
\* and f, f not invoked.
C9_AndThenSuccess ==
  \A i \in Calls : \A j \in KindIdx(i, "AndThen") :
    LET E == log[i][j]
        pa == E.at \o <<"a">>
        pb == E.at \o <<"b">>
    IN E.self.st = "First" =>
         /\ Cardinality(AtIdx(i, pa)) = 1
         /\ PollEv(i, pa).self = E.self.a
         /\ PollEv(i, pa).out.tag = "Ok" =>
              ChainedOnce(i, E, PollEv(i, pa).out.val,
                          IntoFuture(Apply(E.self.f, PollEv(i, pa).out.val)),
                          IF Polled(i, pb) /\ PollEv(i, pb).out.tag = "None"
                          THEN AndThenSecond(PollEv(i, pb).fut) ELSE Gone)
         /\ PollEv(i, pa).out.tag = "None" =>
              /\ E.out = None
              /\ E.fut = AndThenFirst(PollEv(i, pa).fut, E.self.f)
              /\ CallIdx(i, E.at) = {}
              /\ Under(i, pb, 0) = {}

\* the first future was pending in call 1 and succeeded in call 2, where the
\* second future was built, polled and found pending
C9_Witness ==
  /\ root = AndThenFirst(Src(1, 1), Fn("recv_err", 2, 2))
  /\ Len(log) = 2
  /\ PollEv(1, <<"a">>).out.tag = "None" /\ CallIdx(1, <<>>) = {}
  /\ PollEv(2, <<"a">>).out.tag = "Ok" /\ CallIdx(2, <<>>) # {}
  /\ Polled(2, <<"b">>) /\ PollEv(2, <<"b">>).self = Src(2, 2)
  /\ fut = AndThenSecond(Src(2, 2))

(* ---------------------------- C10 --------------------------------------- *)
\* C10: when the first future of an or_else yields Ready(Success(v)) the poll
\* returns Ready(Success(v)) and f is invoked in no call; when it yields
\* Ready(Failure(e)) the same poll invokes f(e), converts the result and polls
\* that second future once, and from then on every poll of the or_else polls
\* the second future alone and returns its result.
C10_OrElse ==
  \A i \in Calls : \A j \in KindIdx(i, "OrElse") :
    LET E == log[i][j]
        pa == E.at \o <<"a">>
        pb == E.at \o <<"b">>
    IN /\ (E.self.st = "First" /\ Polled(i, pa) /\ PollEv(i, pa).out.tag = "Ok") =>
            /\ E.out = PollEv(i, pa).out
            /\ E.fut = Gone
            /\ Under(i, pb, 0) = {}
            /\ \A i2 \in Calls : CallIdx(i2, E.at) = {}
       /\ (E.self.st = "First" /\ Polled(i, pa) /\ PollEv(i, pa).out.tag = "Err") =>
            ChainedOnce(i, E, PollEv(i, pa).out.val,
                        IntoFuture(Apply(E.self.f, PollEv(i, pa).out.val)),
                        IF Polled(i, pb) /\ PollEv(i, pb).out.tag = "None"
                        THEN OrElseSecond(PollEv(i, pb).fut) ELSE Gone)
       /\ E.self.st = "Second" =>
            /\ Under(i, pa, 0) = {}
            /\ CallIdx(i, E.at) = {}
            /\ Cardinality(AtIdx(i, pb)) = 1
            /\ PollEv(i, pb).self = E.self.b
            /\ E.out = PollEv(i, pb).out
            /\ E.fut = IF E.out.tag = "None" THEN OrElseSecond(PollEv(i, pb).fut) ELSE Gone

\* the first future failed, the second future was built and found pending,
\* and a later poll returned the second future's Success
C10_Witness ==
  /\ root = OrElseFirst(Src(1, 1), Fn("recv_err", 2, 2))
  /\ Len(log) >= 2
  /\ \E i \in Calls :
       /\ i < Len(log)
       /\ Polled(i, <<"a">>) /\ PollEv(i, <<"a">>).out = Err(1)
       /\ CallIdx(i, <<>>) # {}
       /\ PollEv(i, <<"b">>).out.tag = "None"
  /\ PollEv(Len(log), <<>>).self.st = "Second"
  /\ last = Ready(Ok(2))

(* ---------------------------- C11 --------------------------------------- *)
\* C11: while the inner future of a map yields Pending the map yields Pending
\* and f is not invoked; when the inner yields Ready(Success(v)) the map
\* yields Ready(Success(f(v))) and f has been invoked exactly once; when the
\* inner yields Ready(Failure(e)) the map yields Ready(Failure(e)) and f is
\* invoked in no call.
C11_Map ==
  \A i \in Calls : \A j \in KindIdx(i, "Map") :
    LET E == log[i][j]
        pin == E.at \o <<"future">>
        In == PollEv(i, pin)
    IN /\ Cardinality(AtIdx(i, pin)) = 1
       /\ In.self = E.self.future
       /\ In.out.tag = "None" =>
            /\ E.out = None
            /\ E.fut = Map(In.fut, E.self.f)
            /\ CallIdx(i, E.at) = {}
       /\ In.out.tag = "Ok" =>
            /\ E.out.tag = "Ok"
            /\ E.out.val = Apply(E.self.f, In.out.val)
            /\ E.self.f.fn = "inc" => E.out.val = In.out.val + 1
            /\ E.fut = Gone
            /\ Cardinality(CallIdx(i, E.at)) = 1
            /\ \A c \in CallIdx(i, E.at) :
                 log[i][c].self = E.self.f /\ log[i][c].out = Arg(In.out.val)
            /\ \A i2 \in Calls : i2 # i => CallIdx(i2, E.at) = {}
       /\ In.out.tag = "Err" =>
            /\ E.out = In.out
            /\ E.fut = Gone
            /\ \A i2 \in Calls : CallIdx(i2, E.at) = {}

\* the inner future was pending, then yielded Success(2): the map yields
\* Success(3) after one invocation of f
C11_Witness ==
  /\ root = Map(Src(1, 1), Fn("inc", 0, 0))
  /\ Len(log) = 2
  /\ PollEv(1, <<>>).out = None /\ CallIdx(1, <<>>) = {}
  /\ PollEv(2, <<"future">>).out = Ok(2)
  /\ Cardinality(CallIdx(2, <<>>)) = 1
  /\ last = Ready(Ok(3))

(* ---------------------------- C12 --------------------------------------- *)
\* C12: when the inner future of a map_err yields Ready(Failure(e)) the
\* map_err yields Ready(Failure(f(e))); when it yields Ready(Success(v)) the
\* map_err yields Ready(Success(v)) and f is invoked in no call; when it
\* yields Pending the map_err yields Pending and f is not invoked.
C12_MapErr ==
  \A i \in Calls : \A j \in KindIdx(i, "MapErr") :
    LET E == log[i][j]
        pin == E.at \o <<"future">>
        In == PollEv(i, pin)
    IN /\ Cardinality(AtIdx(i, pin)) = 1
       /\ In.self = E.self.future
       /\ In.out.tag = "None" =>
            /\ E.out = None
            /\ E.fut = MapErr(In.fut, E.self.f)
            /\ CallIdx(i, E.at) = {}
       /\ In.out.tag = "Err" =>
            /\ E.out.tag = "Err"
            /\ E.out.val = Apply(E.self.f, In.out.val)
            /\ E.self.f.fn = "inc" => E.out.val = In.out.val + 1
            /\ E.self.f.fn = "const" => E.out.val = E.self.f.e
            /\ E.fut = Gone
            /\ Cardinality(CallIdx(i, E.at)) = 1
            /\ \A c \in CallIdx(i, E.at) :
                 log[i][c].self = E.self.f /\ log[i][c].out = Arg(In.out.val)
       /\ In.out.tag = "Ok" =>
            /\ E.out = In.out
            /\ E.fut = Gone
            /\ \A i2 \in Calls : CallIdx(i2, E.at) = {}

\* the receiver was pending, then disconnected: RecvError is mapped to 2
C12_Witness ==
  /\ root = MapErr(Receiver(1), Fn("const", 0, 2))
  /\ Len(log) = 2
  /\ PollEv(1, <<>>).out = None
  /\ PollEv(2, <<"future">>).out = Err(RecvError)
  /\ last = Ready(Err(2))

(* ---------------------------- C13 --------------------------------------- *)
\* C13: every poll of a receiver does one non-blocking receive on the channel
\* as it is when the poll is made: empty with the producer connected, it
\* returns Pending (the receiver itself) and leaves the channel alone; with a
\* value buffered it returns Ready(Success(oldest value)) and removes that one
\* value, also when the producer is gone; empty with the producer gone, it
\* returns Ready(Failure(RecvError)).
C13_Receiver ==
  [][log' # log =>
       \A j \in 1..Len(log'[Len(log')]) :
         LET E == log'[Len(log')][j] IN
         (E.ev = "poll" /\ E.self.k = "Receiver") =>
           LET c == chans[E.self.ch]
               d == chans'[E.self.ch]
           IN /\ (c.q = <<>> /\ c.open) =>
                   E.out = None /\ E.fut = E.self /\ d = c
              /\ c.q # <<>> =>
                   E.out = Ok(Head(c.q)) /\ E.fut = Gone
                     /\ d = [c EXCEPT !.q = Tail(c.q)]
              /\ (c.q = <<>> /\ ~c.open) =>
                   E.out = Err(RecvError) /\ E.fut = Gone /\ d = c]_vars

\* two values were buffered and the producer gone when the receiver was
\* polled: the poll returned the older value and left the newer one
C13_Witness ==
  /\ root = Receiver(1)
  /\ Len(log) = 1
  /\ last = Ready(Ok(1))
  /\ chans[1].q = <<2>>
  /\ ~chans[1].open

(* ---------------------------- C14 --------------------------------------- *)
\* C14: every poll of the never-completing future, and of every continuation
\* it returns, returns Pending with a never-completing continuation; it is
\* never Ready.
C14_EmptyNeverReady ==
  /\ \A i \in Calls : \A j \in KindIdx(i, "Empty") :
       log[i][j].out = None /\ log[i][j].fut = Empty
  /\ root = Empty => (fut = Empty /\ ~last.ready /\ last.fut = Empty)

\* the never-completing future was polled as often as the driver polls
C14_Witness ==
  /\ root = Empty
  /\ Len(log) = MaxPolls
  /\ \A i \in Calls : PollEv(i, <<>>).self = Empty /\ PollEv(i, <<>>).out = None
  /\ fut = Empty

(* ---------------------------- C15 --------------------------------------- *)
\* C15: no spurious completion: when a poll has returned Pending, polling the
\* continuation it returned, with the channels as that poll left them,
\* returns Pending again, with the same continuation, and does not touch the
\* channels.
C15_NoSpuriousCompletion ==
  [][(log' # log /\ ~last'.ready) =>
       LET r == Poll(fut', chans', <<>>) IN
         /\ ~r.res.ready
         /\ r.res.fut = fut'
         /\ r.ch = chans']_vars

\* a join that had stored its first side's Success was polled while the
\* second side's channel was still empty and open, and returned itself
C15_Witness ==
  /\ Len(log) >= 2
  /\ fut.k = "Join" /\ fut.st = "Second"
  /\ fut.b = Src(2, 2)
  /\ PollEv(Len(log), <<>>).self = fut
  /\ ~last.ready /\ last.fut = fut
  /\ chans[2].q = <<>> /\ chans[2].open

(* ---------------------------- C16 --------------------------------------- *)
\* the phases a composite in phase st may be in after one more poll
PhasesAfter(st) ==
  CASE st = "First" -> {"First", "Second"}
    [] st = "Second" -> {"Second"}

JoinPhasesAfter(st) ==
  CASE st = "Both" -> {"Both", "First", "Second"}
    [] st = "First" -> {"First"}
    [] st = "Second" -> {"Second"}

\* C16: phases only move forward.  An and_then or or_else goes Phase A ->
\* Phase B -> terminal and never from Phase B back to Phase A; once Phase A is
\* left the first sub-future is not polled and the continuation not invoked
\* again, so the continuation is invoked at most once overall.  A join goes
\* Both -> one Done phase -> terminal, never from a Done phase to Both or to
\* the other Done phase.
C16_PhasesForward ==
  \A i \in Calls : \A j \in PollIdx(i) :
    LET E == log[i][j]
        pa == E.at \o <<"a">>
    IN /\ E.self.k \in {"AndThen", "OrElse"} =>
            /\ E.fut # Gone => (E.fut.k = E.self.k /\ E.fut.st \in PhasesAfter(E.self.st))
            /\ Cardinality(CallIdx(i, E.at)) <= 1
            /\ E.self.st = "Second" => (Under(i, pa, 0) = {} /\ CallIdx(i, E.at) = {})
            /\ \A i2 \in Calls :
                 (i2 > i /\ Polled(i2, E.at)) =>
                   /\ PollEv(i2, E.at).self.k = E.self.k
                   /\ PollEv(i2, E.at).self.st \in PhasesAfter(E.self.st)
                   /\ CallIdx(i, E.at) # {} =>
                        (CallIdx(i2, E.at) = {} /\ Under(i2, pa, 0) = {})
       /\ E.self.k = "Join" =>
            /\ E.fut # Gone => (E.fut.k = "Join" /\ E.fut.st \in JoinPhasesAfter(E.self.st))
            /\ \A i2 \in Calls :
                 (i2 > i /\ Polled(i2, E.at)) =>
                   /\ PollEv(i2, E.at).self.k = "Join"
                   /\ PollEv(i2, E.at).self.st \in JoinPhasesAfter(E.self.st)
       /\ (E.at = <<>> /\ i > 1) => E.self = PollEv(i - 1, <<>>).fut

\* an and_then polled three times: Phase A, Phase A -> Phase B (the
\* continuation invoked), Phase B -> terminal
C16_Witness ==
  /\ root = AndThenFirst(Src(1, 1), Fn("recv_err", 2, 2))
  /\ Len(log) = 3
  /\ PollEv(1, <<>>).self.st = "First" /\ PollEv(1, <<>>).fut.st = "First"
  /\ PollEv(2, <<>>).self.st = "First" /\ PollEv(2, <<>>).fut.st = "Second"
  /\ CallIdx(2, <<>>) # {}
  /\ PollEv(3, <<>>).self.st = "Second" /\ ~Polled(3, <<"a">>)
  /\ last.ready

(* ---------------------------- C17 --------------------------------------- *)
\* the sub-futures x still holds yield Ready with the channels as they are: a
\* resolved future does, the never-completing one does not, a receiver does
\* once a value is buffered or its producer is gone; a select needs one of
\* its sides, a join every unresolved side, a chain its first future and,
\* where the first future's outcome makes it build the second, the second
RECURSIVE CanFinish(_, _)
CanFinish(x, ch) ==
  CASE x.k = "FutureResult" -> TRUE
    [] x.k = "Empty" -> FALSE
    [] x.k = "Receiver" -> ch[x.ch].q # <<>> \/ ~ch[x.ch].open
    [] x.k \in {"Map", "MapErr"} -> CanFinish(x.future, ch)
    [] x.k \in {"AndThen", "OrElse"} ->
         IF x.st = "Second" THEN CanFinish(x.b, ch)
         ELSE /\ CanFinish(x.a, ch)
              /\ LET r == Poll(x.a, ch, <<>>) IN
                 (r.res.out.tag = (IF x.k = "AndThen" THEN "Ok" ELSE "Err")) =>
                    CanFinish(IntoFuture(Apply(x.f, r.res.out.val)), r.ch)
    [] x.k = "Select" -> CanFinish(x.a, ch) \/ CanFinish(x.b, ch)
    [] x.k = "Join" ->
         /\ x.st \in {"Both", "First"} => CanFinish(x.a, ch)
         /\ x.st \in {"Both", "Second"} => CanFinish(x.b, ch)

\* C17: under repeated polling a future whose sub-futures yield Ready
\* eventually returns Ready (for a select one ready side is enough); once it
\* has returned Ready there is no continuation, and no further outcome.
C17_EventuallyReady ==
  /\ (fut # Gone /\ CanFinish(fut, chans)) ~> (fut = Gone /\ last.ready)
  /\ [][fut = Gone => (fut' = Gone /\ last' = last)]_vars
  /\ [](last.ready <=> fut = Gone)

\* a join whose two sides resolved in different calls has returned Ready
C17_Witness ==
  /\ root = JoinBoth(Src(1, 1), Src(2, 2))
  /\ fut = Gone
  /\ last.ready /\ last.out.tag = "Ok"
  /\ PollEv(1, <<>>).self.st = "Second"

(* ---------------------------- C18 --------------------------------------- *)
\* every join inside x that holds a stored result holds a Success
RECURSIVE StoredOk(_)
StoredOk(x) ==
  CASE x.k \in {"Map", "MapErr"} -> StoredOk(x.future)
    [] x.k \in {"AndThen", "OrElse"} ->
         IF x.st = "First" THEN StoredOk(x.a) ELSE StoredOk(x.b)
    [] x.k = "Select" -> StoredOk(x.a) /\ StoredOk(x.b)
    [] x.k = "Join" ->
         (CASE x.st = "Both" -> StoredOk(x.a) /\ StoredOk(x.b)
            [] x.st = "First" -> StoredOk(x.a) /\ x.b.tag = "Ok"
            [] x.st = "Second" -> x.a.tag = "Ok" /\ StoredOk(x.b))
    [] OTHER -> TRUE

\* C18: the outcome a join stores for a later poll (_Join::First holding
\* the second side's result, _Join::Second the first side's) is a Success,
\* in the continuation the driver holds and in every future that was polled
\* or returned.
C18_StoredIsSuccess ==
  /\ StoredOk(fut)
  /\ \A i \in Calls : \A j \in PollIdx(i) :
        StoredOk(log[i][j].self) /\ StoredOk(log[i][j].fut)

\* a join that stored its first side's item was polled again with the second
\* side still pending
C18_Witness ==
  /\ root = JoinBoth(Src(1, 1), Src(2, 2))
  /\ fut = JoinSecond(Ok(1), Src(2, 2))
  /\ Len(log) = 2
  /\ PollEv(2, <<>>).self = fut

(* ---------------------------- C19 --------------------------------------- *)
\* the sub-future at position p was polled in call i and yielded a Failure
Failed(i, p) == Polled(i, p) /\ PollEv(i, p).out.tag = "Err"

\* C19: a join poll that returns Ready(Failure(e)) returns the first side's
\* error if the first side yielded Failure in that call and otherwise the
\* second side's, which then yielded Failure in that call; when both sides
\* yield Failure in one call the first side's error is returned; when the
\* second side yields Failure while the first is still Pending, the join
\* returns the second side's error and no continuation.
C19_JoinErrorChoice ==
  \A i \in Calls : \A j \in KindIdx(i, "Join") :
    LET E == log[i][j]
        pa == E.at \o <<"a">>
        pb == E.at \o <<"b">>
    IN /\ E.out.tag = "Err" =>
            /\ E.fut = Gone
            /\ IF Failed(i, pa) THEN E.out.val = PollEv(i, pa).out.val
               ELSE Failed(i, pb) /\ E.out.val = PollEv(i, pb).out.val
       /\ (Failed(i, pa) /\ Failed(i, pb)) => E.out = Err(PollEv(i, pa).out.val)
       /\ (Failed(i, pb) /\ Polled(i, pa) /\ PollEv(i, pa).out.tag = "None") =>
            (E.out = Err(PollEv(i, pb).out.val) /\ E.fut = Gone)

\* both sides failed in the one call, with different errors
C19_Witness ==
  /\ root = JoinBoth(FutureResult(Err(1)), FutureResult(Err(2)))
  /\ Len(log) = 1
  /\ Failed(1, <<"a">>) /\ Failed(1, <<"b">>)
  /\ last = Ready(Err(1))

(* ---------------------------- C20 --------------------------------------- *)
\* the sides of the select or join x that are Empty futures
EmptySides(x) ==
  {s \in {"a", "b"} :
     /\ x.k = "Select" \/ (x.k = "Join" /\ x.st \in {"Both", IF s = "a" THEN "First" ELSE "Second"})
     /\ x[s] = Empty}

\* select(Empty, B) or select(B, Empty), as the holder of B
WithEmpty(s, b) == IF s = "a" THEN Select(Empty, b) ELSE Select(b, Empty)

\* C20: a select with Empty as one side returns at every poll what its other
\* side B alone returns at that point (B's outcome when B is Ready; Pending
\* with B's continuation in B's place when B is Pending; the same effect on
\* the channels), and polls B once in the call; a join with Empty as one
\* side never returns Ready(Success), and returns Ready only in a call in
\* which its other side yielded Failure, with that error.
C20_EmptyNeutralAbsorbing ==
  /\ (fut # Gone /\ fut.k = "Select") => \A s \in EmptySides(fut) :
        LET rs == Poll(fut, chans, <<>>)
            rb == Poll(fut[Other(s)], chans, <<>>)
        IN /\ rs.res.ready = rb.res.ready
           /\ rs.res.out = rb.res.out
           /\ rs.ch = rb.ch
           /\ ~rb.res.ready => rs.res.fut = WithEmpty(s, rb.res.fut)
  /\ \A i \in Calls : \A j \in KindIdx(i, "Select") :
        LET E == log[i][j] IN
        \A s \in EmptySides(E.self) :
          LET pb == E.at \o <<Other(s)>> IN
          /\ Cardinality(AtIdx(i, pb)) = 1
          /\ E.out = PollEv(i, pb).out
          /\ E.out.tag = "None" => E.fut = WithEmpty(s, PollEv(i, pb).fut)
  /\ \A i \in Calls : \A j \in KindIdx(i, "Join") :
        LET E == log[i][j] IN
        \A s \in EmptySides(E.self) :
          LET pb == E.at \o <<Other(s)>> IN
          /\ E.out.tag # "Ok"
          /\ E.out.tag = "Err" => (Failed(i, pb) /\ E.out.val = PollEv(i, pb).out.val)

\* select(Empty, B) was Pending while B was, and returned B's item in the
\* next call; B was polled in both calls
C20_Witness ==
  /\ root = Select(Empty, Src(2, 2))
  /\ Len(log) = 2
  /\ PollEv(1, <<"b">>).out.tag = "None" /\ PollEv(1, <<>>).out.tag = "None"
  /\ PollEv(2, <<"b">>).out.tag = "Ok" /\ last = Ready(PollEv(2, <<"b">>).out)

====
